---- MODULE Spec2Model ----
(***************************************************************************)
(* Binance open-interest dashboard (streamlit_app.py).                     *)
(*                                                                         *)
(* Four specifications over one set of variables:                          *)
(*   Spec      one script run of main_app on a cold cache: the three       *)
(*             fetches, the st.stop() exits, the ranking loop, the views   *)
(*   SpecSort  the two top-10 views over entry lists longer than 10        *)
(*   SpecDown  downsample_data over series and target sizes                *)
(*   SpecCache two sessions running the acquisition part of main_app       *)
(*             through the three st.cache_data caches while time passes    *)
(*                                                                         *)
(* Floats are modelled as exact numbers: integers, and reduced fractions   *)
(* <<num, den>> for intensity.                                             *)
(***************************************************************************)
EXTENDS Integers, Sequences, FiniteSets, TLC

VARIABLES
    (* one run of main_app *)
    pc,              \* position of the script run
    supply_data,     \* dict symbol -> record, result of fetch_circulating_supply
    sorted_symbols,  \* result of get_sorted_symbols_by_oi_usd
    target_symbols,  \* sorted_symbols[:150]
    bulk_data,       \* sequence of <<symbol, df>> in dict iteration order
    loop_i,          \* number of bulk_data items the ranking loop has consumed
    ranking_data,    \* list of entries
    top_intensity,   \* view sorted by intensity
    top_whales,      \* view sorted by oi_growth_usd
    failed,          \* which remote reads raised in this run (environment history)
    queries,         \* which remote reads were sent in this run (environment history)
    ui,              \* st.error / st.warning elements shown in this run
    (* downsample_data *)
    ds_df, ds_target, ds_out, ds_pc,
    (* sessions and the st.cache_data caches *)
    now,             \* monotonic clock, seconds
    ticks,           \* number of clock advances so far
    cache,           \* cache key -> [present, stored, value]
    lock,            \* cache key -> session holding compute_value_lock, or 0
    spc,             \* session -> position
    s_symbols,       \* session -> its sorted_symbols
    fetchCount       \* cache key -> number of remote reads issued

runVars   == <<pc, supply_data, sorted_symbols, target_symbols, bulk_data, loop_i,
               ranking_data, top_intensity, top_whales, failed, queries, ui>>
downVars  == <<ds_df, ds_target, ds_out, ds_pc>>
cacheVars == <<now, ticks, cache, lock, spc, s_symbols, fetchCount>>
vars      == <<runVars, downVars, cacheVars>>

-----------------------------------------------------------------------------
(* Bounds *)

MaxLen     == 3    \* longest series of the rich symbol
MaxEntries == 11   \* longest entry list handed to the views
MaxDsLen   == 9    \* longest series handed to downsample_data
MaxTarget  == 4    \* largest target_points handed to downsample_data
MaxTicks   == 2    \* clock advances in SpecCache

(* Program constants *)

DATA_LIMIT   == 4000   \* rows per symbol kept by the series query
TargetLimit  == 150    \* sorted_symbols[:150]
TopN         == 10     \* [:10] of both views
TTL_SUPPLY   == 1      \* @st.cache_data(ttl=1)
TTL_UNIVERSE == 60     \* @st.cache_data(ttl=60)
TTL_BULK     == 60     \* @st.cache_data(ttl=60, show_spinner=False)

-----------------------------------------------------------------------------
(* Generic helpers *)

Min(a, b) == IF a <= b THEN a ELSE b

Abs(x) == IF x < 0 THEN -x ELSE x

RECURSIVE GCD(_, _)
GCD(a, b) == IF b = 0 THEN a ELSE GCD(b, a % b)

\* Python float division n / d (d # 0) as a reduced fraction with positive denominator.
Frac(n, d) ==
    LET g == GCD(Abs(n), Abs(d))
        s == IF d < 0 THEN -1 ELSE 1
    IN  <<(s * n) \div g, (s * d) \div g>>

FracGT(x, y) == x[1] * y[2] > y[1] * x[2]

SeqOfLenUpTo(S, n) == UNION { [1..k -> S] : k \in 0..n }

\* seq[:n]
Take(seq, n) == SubSeq(seq, 1, Min(n, Len(seq)))

\* seq[-n:]
LastN(seq, n) == SubSeq(seq, Len(seq) - Min(n, Len(seq)) + 1, Len(seq))

-----------------------------------------------------------------------------
(* Data the two databases can hold *)

Symbols  == {"A", "B"}
SymOrder == <<"A", "B">>       \* ORDER BY symbol / groupby key order

\* A cell of the supply table as pandas hands it over.
\*   none: Python None   nan: float NaN (SQL NULL in a numeric column)
\*   num: a number       numstr: a string float() parses   str: any other string
Cell(t, v) == [t |-> t, v |-> v]
SupplyCells == {Cell("none", 0), Cell("nan", 0), Cell("str", 0),
                Cell("num", -1), Cell("num", 0), Cell("num", 2), Cell("numstr", 2)}
McCells     == {Cell("none", 0), Cell("nan", 0), Cell("str", 0),
                Cell("num", -1), Cell("num", 0), Cell("num", 3)}

TokenInfo(cs, mc) == [present |-> TRUE, circulating_supply |-> cs, market_cap |-> mc]
NoInfo == [present |-> FALSE, circulating_supply |-> Cell("none", 0),
           market_cap |-> Cell("none", 0)]

\* Rows the supply table can hold for a symbol (NoInfo: no row).  "A" carries
\* every combination of cells, "B" a plain row or none.
SupplyRows(sym) ==
    IF sym = "A"
    THEN {NoInfo} \cup { TokenInfo(cs, mc) : cs \in SupplyCells, mc \in McCells }
    ELSE {NoInfo, TokenInfo(Cell("num", 2), Cell("num", 3))}

\* A row of table binance: price > 0, oi >= 0.
Point(p, o) == [price |-> p, oi |-> o]
Points == {Point(1, 0), Point(2, 1), Point(2, 3)}

\* Histories table binance can hold for a symbol, oldest first (<<>>: no row).
Histories(sym) ==
    IF sym = "A"
    THEN SeqOfLenUpTo(Points, MaxLen)
    ELSE {<<>>, <<Point(2, 1)>>, <<Point(2, 1), Point(2, 3)>>}

\* Results of SELECT symbol ... GROUP BY symbol ORDER BY MAX(oi_usd) DESC.
Universes == {<<>>, <<"A">>, <<"B">>, <<"A", "B">>, <<"B", "A">>}

-----------------------------------------------------------------------------
(* B. The three fetch functions.  `raised` says whether the remote read *)
(* (get_connection / pd.read_sql) raised; the rest is the function body.  *)

EmptySupply == [s \in Symbols |-> NoInfo]     \* {}: .get(sym) is None for all

\* fetch_circulating_supply: df.set_index('symbol').to_dict('index'), {} on error
fetch_circulating_supply(raised, table) ==
    IF raised THEN EmptySupply ELSE table

\* Mutant: the except branch hands back the list instead of []
get_sorted_symbols_NoCatch(raised, symbols) == symbols

\* get_sorted_symbols_by_oi_usd: df['symbol'].tolist(), [] on error
get_sorted_symbols_by_oi_usd(raised, symbols) ==
    IF raised THEN <<>> ELSE symbols

\* The series query: the DATA_LIMIT latest rows of each requested symbol,
\* ORDER BY symbol, time ASC.
RECURSIVE SeriesQuery(_, _, _)
SeriesQuery(order, symbol_list, hist) ==
    IF order = <<>> THEN <<>>
    ELSE LET sym  == Head(order)
             rows == IF \E i \in 1..Len(symbol_list) : symbol_list[i] = sym
                     THEN LastN(hist[sym], DATA_LIMIT) ELSE <<>>
         IN  [i \in 1..Len(rows) |->
                  [symbol |-> sym, price |-> rows[i].price, oi |-> rows[i].oi]]
             \o SeriesQuery(Tail(order), symbol_list, hist)

\* df_all.groupby('symbol'): one <<sym, group>> per symbol that has rows, in
\* key order; a group keeps the row labels (positions in df_all) of its rows.
RECURSIVE GroupBy(_, _)
GroupBy(order, df_all) ==
    IF order = <<>> THEN <<>>
    ELSE LET sym  == Head(order)
             pos  == { i \in 1..Len(df_all) : df_all[i].symbol = sym }
             lo   == CHOOSE i \in pos : \A j \in pos : i <= j
             grp  == [k \in 1..Cardinality(pos) |->
                         [idx   |-> lo + k - 2,
                          price |-> df_all[lo + k - 1].price,
                          oi    |-> df_all[lo + k - 1].oi]]
         IN  (IF pos = {} THEN <<>> ELSE << <<sym, grp>> >>)
             \o GroupBy(Tail(order), df_all)

\* fetch_bulk_data_one_shot: {} for an empty list (no query), {} on error or
\* on an empty result, else the groups.
fetch_bulk_data_one_shot(symbol_list, raised, hist) ==
    IF symbol_list = <<>> THEN <<>>
    ELSE IF raised THEN <<>>
    ELSE LET df_all == SeriesQuery(SymOrder, symbol_list, hist)
         IN  IF df_all = <<>> THEN <<>> ELSE GroupBy(SymOrder, df_all)

-----------------------------------------------------------------------------
(* D. main_app: the ranking computation *)

\* A Python float: a number or NaN.  raised: float() raised ValueError/TypeError.
Num(v)   == [raised |-> FALSE, nan |-> FALSE, v |-> v]
NaN      == [raised |-> FALSE, nan |-> TRUE,  v |-> 0]
Raise    == [raised |-> TRUE,  nan |-> FALSE, v |-> 0]

\* float(raw)
Float(raw) ==
    CASE raw.t = "num"    -> Num(raw.v)
      [] raw.t = "numstr" -> Num(raw.v)
      [] raw.t = "nan"    -> NaN
      [] raw.t = "str"    -> Raise       \* ValueError
      [] raw.t = "none"   -> Raise       \* TypeError

\* try: raw = token_info.get(field); if raw is not None: x = float(raw)
\* except (ValueError, TypeError): x = 0        (x is 0 before the try)
SafeFloat(raw) ==
    IF raw.t = "none" THEN Num(0)
    ELSE IF Float(raw).raised THEN Num(0) ELSE Float(raw)

\* x > 0 on Python floats: False for NaN
GT0(x) == ~x.nan /\ x.v > 0

\* Mutant: the minimum is taken over the points before the last one
RECURSIVE MinOI_ExcludingLast(_)
MinOI_ExcludingLast(df) ==
    IF Len(df) <= 2 THEN df[1].oi
    ELSE Min(df[1].oi, MinOI_ExcludingLast(Tail(df)))

RECURSIVE MinOI(_)
MinOI(df) ==
    IF Len(df) = 1 THEN df[1].oi
    ELSE Min(df[1].oi, MinOI(Tail(df)))

\* Mutant: the static market cap is tried before the circulating supply
PriorityChain_StaticFirst(supply, db_market_cap, current_price, oi_growth_tokens, oi_growth_usd, min_oi) ==
    IF GT0(db_market_cap)
    THEN <<db_market_cap.v, Frac(oi_growth_usd, db_market_cap.v)>>
    ELSE IF GT0(supply)
    THEN <<supply.v * current_price, Frac(oi_growth_usd, supply.v * current_price)>>
    ELSE IF min_oi > 0
    THEN <<0, Frac(oi_growth_tokens, 10 * min_oi)>>
    ELSE <<0, Frac(0, 1)>>

\* The if / elif / else of the priority logic: <<market_cap, intensity>>
PriorityChain(supply, db_market_cap, current_price, oi_growth_tokens, oi_growth_usd, min_oi) ==
    IF GT0(supply)
    THEN LET market_cap == supply.v * current_price
         IN  <<market_cap, Frac(oi_growth_usd, market_cap)>>
    ELSE IF GT0(db_market_cap)
    THEN LET market_cap == db_market_cap.v
         IN  <<market_cap, Frac(oi_growth_usd, market_cap)>>
    ELSE IF min_oi > 0
    THEN <<0, Frac(oi_growth_tokens, 10 * min_oi)>>
    ELSE <<0, Frac(0, 1)>>

\* One iteration of the loop body for an eligible (sym, df): the entry appended,
\* or raised = TRUE when an exception escapes the body.
LoopBody(sym, df, supply) ==
    LET token_info       == supply[sym]
        current_price    == df[Len(df)].price
        min_oi           == MinOI(df)
        current_oi       == df[Len(df)].oi
        oi_growth_tokens == current_oi - min_oi
        oi_growth_usd    == oi_growth_tokens * current_price
        sup   == IF token_info.present
                 THEN SafeFloat(token_info.circulating_supply) ELSE Num(0)
        dbmc  == IF token_info.present
                 THEN SafeFloat(token_info.market_cap) ELSE Num(0)
        mi    == PriorityChain(sup, dbmc, current_price, oi_growth_tokens,
                               oi_growth_usd, min_oi)
    IN  [raised |-> sup.raised \/ dbmc.raised,
         entry  |-> [symbol        |-> sym,
                     intensity     |-> mi[2],
                     oi_growth_usd |-> oi_growth_usd,
                     market_cap    |-> mi[1]]]

\* Mutant: only empty series are skipped
Skipped_OnlyEmpty(df) == Len(df) = 0

\* if df.empty or len(df) < 2: continue
Skipped(df) == Len(df) = 0 \/ Len(df) < 2

\* Sort key of an entry as a fraction: x['intensity'] or x['oi_growth_usd']
KeyOf(e, field) == IF field = "intensity" THEN e[field] ELSE <<e[field], 1>>

\* Mutant: sorted ascending and then reversed, which turns equal keys around
RECURSIVE sorted_desc_Reversed(_, _)
sorted_desc_Reversed(entries, field) ==
    IF entries = <<>> THEN <<>>
    ELSE LET n    == Len(entries)
             x    == entries[n]
             rest == sorted_desc_Reversed(SubSeq(entries, 1, n - 1), field)
             k    == Cardinality({ i \in 1..Len(rest) :
                                   FracGT(KeyOf(rest[i], field), KeyOf(x, field)) })
         IN  SubSeq(rest, 1, k) \o <<x>> \o SubSeq(rest, k + 1, Len(rest))

\* sorted(entries, key=lambda x: x[field], reverse=True): descending, and
\* entries with equal keys keep their order in `entries`.
RECURSIVE sorted_desc(_, _)
sorted_desc(entries, field) ==
    IF entries = <<>> THEN <<>>
    ELSE LET n    == Len(entries)
             x    == entries[n]
             rest == sorted_desc(SubSeq(entries, 1, n - 1), field)
             k    == Cardinality({ i \in 1..Len(rest) :
                                   ~FracGT(KeyOf(x, field), KeyOf(rest[i], field)) })
         IN  SubSeq(rest, 1, k) \o <<x>> \o SubSeq(rest, k + 1, Len(rest))

\* sorted(ranking_data, key=..., reverse=True)[:10]; [] when ranking_data is empty
TopView(entries, field) ==
    IF entries = <<>> THEN <<>> ELSE Take(sorted_desc(entries, field), TopN)

-----------------------------------------------------------------------------
(* Idle values of the variable groups a specification does not use *)

RunOff ==
    /\ pc = "off" /\ supply_data = EmptySupply /\ sorted_symbols = <<>>
    /\ target_symbols = <<>> /\ bulk_data = <<>> /\ loop_i = 0
    /\ ranking_data = <<>> /\ top_intensity = <<>> /\ top_whales = <<>>
    /\ failed = {} /\ queries = {} /\ ui = {}

DownOff == ds_df = <<>> /\ ds_target = 1 /\ ds_out = <<>> /\ ds_pc = "off"

-----------------------------------------------------------------------------
(* Spec: one script run of main_app *)

SupplyTables == { t \in [Symbols -> UNION { SupplyRows(s) : s \in Symbols }] :
                     \A s \in Symbols : t[s] \in SupplyRows(s) }

HistoryTables == { h \in [Symbols -> UNION { Histories(s) : s \in Symbols }] :
                     \A s \in Symbols : h[s] \in Histories(s) }

\* supply_data = fetch_circulating_supply()
FetchSupply ==
    /\ pc = "supply"
    /\ \E raised \in BOOLEAN, table \in SupplyTables :
          /\ supply_data' = fetch_circulating_supply(raised, table)
          /\ failed' = IF raised THEN failed \cup {"supply"} ELSE failed
    /\ queries' = queries \cup {"supply"}
    /\ pc' = "universe"
    /\ UNCHANGED <<sorted_symbols, target_symbols, bulk_data, loop_i, ranking_data,
                   top_intensity, top_whales, ui>>
    /\ UNCHANGED <<downVars, cacheVars>>

\* Mutant: the run goes on to the series fetch with an empty list
GetSortedSymbols_NoStop ==
    /\ pc = "universe"
    /\ \E raised \in BOOLEAN, symbols \in Universes :
          /\ sorted_symbols' = get_sorted_symbols_by_oi_usd(raised, symbols)
          /\ failed' = IF raised THEN failed \cup {"universe"} ELSE failed
          /\ ui' = IF raised THEN ui \cup {"error: list"} ELSE ui
    /\ queries' = queries \cup {"universe"}
    /\ pc' = "bulk" /\ target_symbols' = Take(sorted_symbols', TargetLimit)
    /\ UNCHANGED <<supply_data, bulk_data, loop_i, ranking_data, top_intensity,
                   top_whales>>
    /\ UNCHANGED <<downVars, cacheVars>>

\* sorted_symbols = get_sorted_symbols_by_oi_usd()
\* if not sorted_symbols: st.stop()
\* target_symbols = sorted_symbols[:150]
GetSortedSymbols ==
    /\ pc = "universe"
    /\ \E raised \in BOOLEAN, symbols \in Universes :
          /\ sorted_symbols' = get_sorted_symbols_by_oi_usd(raised, symbols)
          /\ failed' = IF raised THEN failed \cup {"universe"} ELSE failed
          /\ ui' = IF raised THEN ui \cup {"error: list"} ELSE ui
    /\ queries' = queries \cup {"universe"}
    /\ IF sorted_symbols' = <<>>
       THEN pc' = "stopped" /\ UNCHANGED target_symbols
       ELSE pc' = "bulk" /\ target_symbols' = Take(sorted_symbols', TargetLimit)
    /\ UNCHANGED <<supply_data, bulk_data, loop_i, ranking_data, top_intensity,
                   top_whales>>
    /\ UNCHANGED <<downVars, cacheVars>>

\* bulk_data = fetch_bulk_data_one_shot(target_symbols)
\* if not bulk_data: st.warning(...); st.stop()
\* ranking_data = []
FetchBulk ==
    /\ pc = "bulk"
    /\ \E raised \in BOOLEAN, hist \in HistoryTables :
          /\ bulk_data' = fetch_bulk_data_one_shot(target_symbols, raised, hist)
          /\ failed' = IF raised /\ target_symbols # <<>>
                       THEN failed \cup {"series"} ELSE failed
          /\ ui' = (IF raised /\ target_symbols # <<>>
                    THEN ui \cup {"error: query"} ELSE ui)
                   \cup (IF bulk_data' = <<>> THEN {"warning: no data"} ELSE {})
    /\ queries' = IF target_symbols # <<>> THEN queries \cup {"series"} ELSE queries
    /\ pc' = IF bulk_data' = <<>> THEN "stopped" ELSE "rank"
    /\ UNCHANGED <<supply_data, sorted_symbols, target_symbols, loop_i, ranking_data,
                   top_intensity, top_whales>>
    /\ UNCHANGED <<downVars, cacheVars>>

\* for sym, df in bulk_data.items(): one iteration
RankStep ==
    /\ pc = "rank"
    /\ loop_i < Len(bulk_data)
    /\ LET sym == bulk_data[loop_i + 1][1]
           df  == bulk_data[loop_i + 1][2]
       IN  IF Skipped(df)
           THEN UNCHANGED <<ranking_data, pc>>
           ELSE IF LoopBody(sym, df, supply_data).raised
           THEN pc' = "raised" /\ UNCHANGED ranking_data
           ELSE /\ ranking_data' = Append(ranking_data, LoopBody(sym, df, supply_data).entry)
                /\ UNCHANGED pc
    /\ loop_i' = loop_i + 1
    /\ UNCHANGED <<supply_data, sorted_symbols, target_symbols, bulk_data,
                   top_intensity, top_whales, failed, queries, ui>>
    /\ UNCHANGED <<downVars, cacheVars>>

\* After the loop: top_intensity = sorted(...)[:10]; top_whales = sorted(...)[:10]
BuildViews ==
    /\ pc = "rank"
    /\ loop_i = Len(bulk_data)
    /\ top_intensity' = TopView(ranking_data, "intensity")
    /\ top_whales' = TopView(ranking_data, "oi_growth_usd")
    /\ pc' = "done"
    /\ UNCHANGED <<supply_data, sorted_symbols, target_symbols, bulk_data, loop_i,
                   ranking_data, failed, queries, ui>>
    /\ UNCHANGED <<downVars, cacheVars>>

-----------------------------------------------------------------------------
(* C. downsample_data *)

\* df.iloc[::step]: positions 0, step, 2*step, ... (1-based: 1, 1+step, ...)
Strided(df, step) ==
    [k \in 1..((Len(df) + step - 1) \div step) |-> df[(k - 1) * step + 1]]

Labels(df) == { df[i].idx : i \in 1..Len(df) }

\* Mutant: the stride is rounded up
downsample_data_CeilStep(df, target_points) ==
    IF Len(df) <= target_points THEN df
    ELSE LET step       == (Len(df) + target_points - 1) \div target_points
             df_sampled == Strided(df, step)
         IN  IF df[Len(df)].idx \notin Labels(df_sampled)
             THEN df_sampled \o <<df[Len(df)]>>
             ELSE df_sampled

\* Mutant: the last row is not appended
downsample_data_NoAppend(df, target_points) ==
    IF Len(df) <= target_points THEN df
    ELSE Strided(df, Len(df) \div target_points)

\* Mutant: the stride is not applied (df.iloc[::1])
downsample_data_NoStride(df, target_points) ==
    IF Len(df) <= target_points THEN df
    ELSE LET df_sampled == Strided(df, 1)
         IN  IF df[Len(df)].idx \notin Labels(df_sampled)
             THEN df_sampled \o <<df[Len(df)]>>
             ELSE df_sampled

downsample_data(df, target_points) ==
    IF Len(df) <= target_points THEN df
    ELSE LET step       == Len(df) \div target_points
             df_sampled == Strided(df, step)
         IN  IF df[Len(df)].idx \notin Labels(df_sampled)
             THEN df_sampled \o <<df[Len(df)]>>
             ELSE df_sampled

-----------------------------------------------------------------------------
(* The st.cache_data caches shared by all sessions *)

Sessions == {1, 2}

SupplyKey   == <<"supply", <<>>>>
UniverseKey == <<"universe", <<>>>>
BulkKey(symbol_list) == <<"bulk", symbol_list>>

\* What the databases can return while sessions run
CacheUniverses == {<<>>, <<"A">>, <<"B">>}
CacheSupplyTables ==
    {[s \in Symbols |-> TokenInfo(Cell("num", 2), Cell("num", 3))]}
CacheHistoryTables ==
    {[s \in Symbols |-> <<Point(2, 1), Point(2, 3)>>], [s \in Symbols |-> <<>>]}

Keys == {SupplyKey, UniverseKey} \cup { BulkKey(l) : l \in CacheUniverses \ {<<>>} }

\* ttl= of the decorator of the function a key belongs to
TTL(k) == CASE k[1] = "supply"   -> TTL_SUPPLY
            [] k[1] = "universe" -> TTL_UNIVERSE
            [] k[1] = "bulk"     -> TTL_BULK

NoEntry == [present |-> FALSE, stored |-> 0, value |-> <<>>]

\* cache.read_result(value_key) succeeds: an entry younger than its ttl exists
Hit(k) == cache[k].present /\ now < cache[k].stored + TTL(k)

CacheOff ==
    /\ now = 0 /\ ticks = 0
    /\ cache = [k \in Keys |-> NoEntry]
    /\ lock = [k \in Keys |-> 0]
    /\ spc = [s \in Sessions |-> <<"off", "">>]
    /\ s_symbols = [s \in Sessions |-> <<>>]
    /\ fetchCount = [k \in Keys |-> 0]

-----------------------------------------------------------------------------
(* Spec *)

Init ==
    /\ pc = "supply" /\ supply_data = EmptySupply /\ sorted_symbols = <<>>
    /\ target_symbols = <<>> /\ bulk_data = <<>> /\ loop_i = 0
    /\ ranking_data = <<>> /\ top_intensity = <<>> /\ top_whales = <<>>
    /\ failed = {} /\ queries = {} /\ ui = {}
    /\ DownOff /\ CacheOff

Next ==
    \/ FetchSupply
    \/ GetSortedSymbols
    \/ FetchBulk
    \/ RankStep
    \/ BuildViews

Spec == Init /\ [][Next]_vars

-----------------------------------------------------------------------------
(* SpecSort: the views over entry lists of any length up to MaxEntries.  The *)
(* ranking loop is replaced by AppendEntry, which appends what an iteration  *)
(* can append for some symbol.                                               *)

SymbolNames == <<"S01", "S02", "S03", "S04", "S05", "S06", "S07", "S08", "S09",
                 "S10", "S11", "S12", "S13", "S14">>

\* <<intensity, oi_growth_usd>> of the entries appended
EntryKinds == {<<Frac(1, 2), 0>>, <<Frac(0, 1), 4>>}

AppendEntry ==
    /\ pc = "rank"
    /\ Len(ranking_data) < MaxEntries
    /\ Len(ranking_data) < Len(SymbolNames)
    /\ \E kind \in EntryKinds :
          ranking_data' = Append(ranking_data,
              [symbol        |-> SymbolNames[Len(ranking_data) + 1],
               intensity     |-> kind[1],
               oi_growth_usd |-> kind[2],
               market_cap    |-> 0])
    /\ UNCHANGED <<pc, supply_data, sorted_symbols, target_symbols, bulk_data, loop_i,
                   top_intensity, top_whales, failed, queries, ui>>
    /\ UNCHANGED <<downVars, cacheVars>>

InitSort ==
    /\ pc = "rank" /\ supply_data = EmptySupply /\ sorted_symbols = <<>>
    /\ target_symbols = <<>> /\ bulk_data = <<>> /\ loop_i = 0
    /\ ranking_data = <<>> /\ top_intensity = <<>> /\ top_whales = <<>>
    /\ failed = {} /\ queries = {} /\ ui = {}
    /\ DownOff /\ CacheOff

NextSort ==
    \/ AppendEntry
    \/ BuildViews

SpecSort == InitSort /\ [][NextSort]_vars

-----------------------------------------------------------------------------
(* SpecDown: downsample_data(df, target_points) *)

\* A group as fetch_bulk_data_one_shot hands it over: n rows labelled
\* first, first+1, ...; open interest rising or falling.
DsGroup(first, n, rising) ==
    [i \in 1..n |-> [idx |-> first + i - 1, price |-> 1,
                     oi  |-> IF rising THEN i ELSE n - i]]

DsGroups == { DsGroup(first, n, rising) :
                 first \in {0, 5}, n \in 0..MaxDsLen, rising \in BOOLEAN }

InitDown ==
    /\ ds_df \in DsGroups
    /\ ds_target \in 1..MaxTarget
    /\ ds_out = <<>>
    /\ ds_pc = "call"
    /\ RunOff /\ CacheOff

Downsample ==
    /\ ds_pc = "call"
    /\ ds_out' = downsample_data(ds_df, ds_target)
    /\ ds_pc' = "returned"
    /\ UNCHANGED <<ds_df, ds_target>>
    /\ UNCHANGED <<runVars, cacheVars>>

NextDown == Downsample

SpecDown == InitDown /\ [][NextDown]_vars

-----------------------------------------------------------------------------
(* SpecCache: sessions running the acquisition part of main_app.  A call of a *)
(* function decorated with st.cache_data reads the cache; on a miss it takes  *)
(* the compute lock of its key, reads again, and only then runs the function  *)
(* body and stores the result with the time of the write.                     *)

TimeSteps == {1, 30}       \* seconds the clock can advance at once

Idle == <<"idle", "">>

\* The cache key of the call session s is in
KeyFor(s) ==
    CASE spc[s][1] = "supply"   -> SupplyKey
      [] spc[s][1] = "universe" -> UniverseKey
      [] spc[s][1] = "bulk"     -> BulkKey(s_symbols[s])

\* main_app goes on with the value the call returned
Return(s, value) ==
    CASE spc[s][1] = "supply" ->
            /\ spc' = [spc EXCEPT ![s] = <<"universe", "call">>]
            /\ UNCHANGED s_symbols
      [] spc[s][1] = "universe" ->
            IF value = <<>>
            THEN /\ spc' = [spc EXCEPT ![s] = Idle]            \* st.stop()
                 /\ UNCHANGED s_symbols
            ELSE /\ spc' = [spc EXCEPT ![s] = <<"bulk", "call">>]
                 /\ s_symbols' = [s_symbols EXCEPT ![s] = Take(value, TargetLimit)]
      [] spc[s][1] = "bulk" ->
            /\ spc' = [spc EXCEPT ![s] = Idle]                 \* stop or rank and render
            /\ UNCHANGED s_symbols

\* A session starts a script run
StartRun(s) ==
    /\ spc[s] = Idle
    /\ spc' = [spc EXCEPT ![s] = <<"supply", "call">>]
    /\ UNCHANGED <<now, ticks, cache, lock, s_symbols, fetchCount>>
    /\ UNCHANGED <<runVars, downVars>>

\* The call reads the cache: a hit returns the stored value
CallCached(s) ==
    /\ spc[s][2] = "call"
    /\ IF Hit(KeyFor(s))
       THEN Return(s, cache[KeyFor(s)].value)
       ELSE /\ spc' = [spc EXCEPT ![s] = <<spc[s][1], "wait">>]
            /\ UNCHANGED s_symbols
    /\ UNCHANGED <<now, ticks, cache, lock, fetchCount>>
    /\ UNCHANGED <<runVars, downVars>>

\* Mutant: the cache is not read again under the lock
AcquireLock_NoRecheck(s) ==
    /\ spc[s][2] = "wait"
    /\ lock[KeyFor(s)] = 0
    /\ lock' = [lock EXCEPT ![KeyFor(s)] = s]
    /\ fetchCount' = [fetchCount EXCEPT ![KeyFor(s)] = @ + 1]
    /\ spc' = [spc EXCEPT ![s] = <<spc[s][1], "fetch">>]
    /\ UNCHANGED s_symbols
    /\ UNCHANGED <<now, ticks, cache>>
    /\ UNCHANGED <<runVars, downVars>>

\* After a miss: take the key's lock, read again, else start the function body
AcquireLock(s) ==
    /\ spc[s][2] = "wait"
    /\ lock[KeyFor(s)] = 0
    /\ IF Hit(KeyFor(s))
       THEN /\ Return(s, cache[KeyFor(s)].value)
            /\ UNCHANGED <<lock, fetchCount>>
       ELSE /\ lock' = [lock EXCEPT ![KeyFor(s)] = s]
            /\ fetchCount' = [fetchCount EXCEPT ![KeyFor(s)] = @ + 1]
            /\ spc' = [spc EXCEPT ![s] = <<spc[s][1], "fetch">>]
            /\ UNCHANGED s_symbols
    /\ UNCHANGED <<now, ticks, cache>>
    /\ UNCHANGED <<runVars, downVars>>

\* What the function body of the call session s is in can return
BodyResults(s) ==
    CASE spc[s][1] = "supply" ->
            { fetch_circulating_supply(r, t) : r \in BOOLEAN, t \in CacheSupplyTables }
      [] spc[s][1] = "universe" ->
            { get_sorted_symbols_by_oi_usd(r, l) : r \in BOOLEAN, l \in CacheUniverses }
      [] spc[s][1] = "bulk" ->
            { fetch_bulk_data_one_shot(s_symbols[s], r, h) :
                 r \in BOOLEAN, h \in CacheHistoryTables }

\* The function body returns: the result is stored and the lock released
FetchReturn(s) ==
    /\ spc[s][2] = "fetch"
    /\ \E value \in BodyResults(s) :
          /\ cache' = [cache EXCEPT ![KeyFor(s)] =
                          [present |-> TRUE, stored |-> now, value |-> value]]
          /\ Return(s, value)
    /\ lock' = [lock EXCEPT ![KeyFor(s)] = 0]
    /\ UNCHANGED <<now, ticks, fetchCount>>
    /\ UNCHANGED <<runVars, downVars>>

\* Time passes
Tick ==
    /\ ticks < MaxTicks
    /\ \E d \in TimeSteps : now' = now + d
    /\ ticks' = ticks + 1
    /\ UNCHANGED <<cache, lock, spc, s_symbols, fetchCount>>
    /\ UNCHANGED <<runVars, downVars>>

InitCache ==
    /\ now = 0 /\ ticks = 0
    /\ cache = [k \in Keys |-> NoEntry]
    /\ lock = [k \in Keys |-> 0]
    /\ spc = [s \in Sessions |-> Idle]
    /\ s_symbols = [s \in Sessions |-> <<>>]
    /\ fetchCount = [k \in Keys |-> 0]
    /\ RunOff /\ DownOff

NextCache ==
    \/ \E s \in Sessions : StartRun(s)
    \/ \E s \in Sessions : CallCached(s)
    \/ \E s \in Sessions : AcquireLock(s)
    \/ \E s \in Sessions : FetchReturn(s)
    \/ Tick

SpecCache == InitCache /\ [][NextCache]_vars

-----------------------------------------------------------------------------
(* Properties of one script run (Spec) *)

\* The group of a symbol in bulk_data; <<>> when the symbol has none
SeriesOf(sym) ==
    IF \E i \in 1..Len(bulk_data) : bulk_data[i][1] = sym
    THEN bulk_data[CHOOSE i \in 1..Len(bulk_data) : bulk_data[i][1] = sym][2]
    ELSE <<>>

EntriesOf(sym) == { i \in 1..Len(ranking_data) : ranking_data[i].symbol = sym }

LastPoint(df) == df[Len(df)]
LowestOI(df)  == CHOOSE m \in { df[i].oi : i \in 1..Len(df) } :
                     \A j \in 1..Len(df) : m <= df[j].oi

\* A reference field counts as a number on record only if it is numeric
UsablePositive(cell) == cell.t \in {"num", "numstr"} /\ cell.v > 0

\* intensity = n / d, as a statement about the fraction stored in the entry
IsQuotient(q, n, d) == q[2] > 0 /\ q[1] * d = n * q[2]

C1_ChainFor(e) ==
    LET df     == SeriesOf(e.symbol)
        rec    == supply_data[e.symbol]
        price  == LastPoint(df).price
        cur    == LastPoint(df).oi
        lo     == LowestOI(df)
        growth == (cur - lo) * price
    IN  IF rec.present /\ UsablePositive(rec.circulating_supply)
        THEN /\ e.market_cap = rec.circulating_supply.v * price
             /\ IsQuotient(e.intensity, growth, e.market_cap)
        ELSE IF rec.present /\ UsablePositive(rec.market_cap)
        THEN /\ e.market_cap = rec.market_cap.v
             /\ IsQuotient(e.intensity, growth, e.market_cap)
        ELSE /\ e.market_cap = 0
             /\ IF lo > 0
                THEN IsQuotient(e.intensity, cur - lo, 10 * lo)
                ELSE e.intensity[1] = 0

\* C1: every emitted entry's (market_cap, intensity) follows the strict priority
\* chain - positive circulating supply first (even with a positive static market
\* cap on record), then positive static market cap, then the damped OI ratio
\* (0 when min_oi is 0) - and no supply record makes the loop body raise.
C1_PriorityChain ==
    /\ pc # "raised"
    /\ \A i \in 1..Len(ranking_data) : C1_ChainFor(ranking_data[i])

\* C1 witness: the run ends with an entry for "A" that fell through a non-numeric
\* supply and a NaN market cap to the damped ratio, and an entry for "B" on the
\* dynamic path although a static market cap is on record.
C1_Witness ==
    /\ pc = "done"
    /\ supply_data["A"] = TokenInfo(Cell("str", 0), Cell("nan", 0))
    /\ supply_data["B"] = TokenInfo(Cell("num", 2), Cell("num", 3))
    /\ \E i, j \in 1..Len(ranking_data) :
          /\ ranking_data[i].symbol = "A" /\ ranking_data[i].market_cap = 0
          /\ ranking_data[i].intensity = <<1, 5>>
          /\ ranking_data[j].symbol = "B" /\ ranking_data[j].market_cap = 4
          /\ ranking_data[j].intensity = <<1, 1>>

\* C5: once the loop is over there is exactly one entry for each symbol whose
\* series has at least 2 points and none for a symbol with 0 or 1 points,
\* whatever the supply table holds; during the loop never more than that.
C5_OneEntryPerEligible ==
    \A sym \in Symbols :
        /\ Cardinality(EntriesOf(sym)) <= (IF Len(SeriesOf(sym)) >= 2 THEN 1 ELSE 0)
        /\ pc = "done" =>
              Cardinality(EntriesOf(sym)) = (IF Len(SeriesOf(sym)) >= 2 THEN 1 ELSE 0)

\* C5 witness: "A" has one point and a supply record, "B" has two points;
\* the finished run holds the entry of "B" alone.
C5_Witness ==
    /\ pc = "done"
    /\ Len(SeriesOf("A")) = 1 /\ supply_data["A"].present
    /\ Len(SeriesOf("B")) = 2
    /\ Len(ranking_data) = 1 /\ ranking_data[1].symbol = "B"

\* C8: every entry has oi_growth_usd = (current_oi - min_oi) * current_price,
\* current values from the last point and min_oi the lowest open interest of
\* the whole series; with positive prices and non-negative open interest it
\* is never negative.
C8_GrowthFromFloor ==
    \A i \in 1..Len(ranking_data) :
        LET e  == ranking_data[i]
            df == SeriesOf(e.symbol)
        IN  /\ e.oi_growth_usd =
                  (LastPoint(df).oi - LowestOI(df)) * LastPoint(df).price
            /\ e.oi_growth_usd >= 0

\* C8 witness: a series whose floor is its last point (growth 0) has an entry
C8_Witness ==
    \E i \in 1..Len(ranking_data) :
        /\ SeriesOf(ranking_data[i].symbol)
              = <<[idx |-> 0, price |-> 2, oi |-> 3], [idx |-> 1, price |-> 1, oi |-> 0]>>
        /\ ranking_data[i].oi_growth_usd = 0

\* C3 as stated: after a failure of a remote read the run still reaches the
\* ranking computation (it never ends at st.stop()).
C3_AsStated ==
    (failed # {} /\ pc \in {"stopped", "done"}) => pc = "done"

\* C3 amended: a failed read is absorbed as an empty result and nothing raises;
\* a failed supply read leaves the rest of the run as it is - both queries are
\* still sent and a finished run has an entry with market_cap = 0 for every
\* eligible symbol; a failed universe or series query ends the run at
\* st.stop() with no entry.
C3_FailureAbsorbed ==
    /\ pc # "raised"
    /\ "supply" \in failed =>
          /\ supply_data = EmptySupply
          /\ pc \in {"stopped", "rank", "done"} => "universe" \in queries
          /\ pc \in {"rank", "done"} => "series" \in queries
          /\ pc = "done" =>
                \A sym \in Symbols :
                    Len(SeriesOf(sym)) >= 2 =>
                        \E i \in EntriesOf(sym) : ranking_data[i].market_cap = 0
    /\ "universe" \in failed =>
          /\ sorted_symbols = <<>> /\ pc = "stopped"
          /\ "series" \notin queries /\ ranking_data = <<>>
    /\ "series" \in failed =>
          /\ bulk_data = <<>> /\ pc = "stopped" /\ ranking_data = <<>>

\* C3 witness: the supply read failed and the run finished with two entries
C3_Witness ==
    /\ pc = "done" /\ failed = {"supply"} /\ Len(ranking_data) = 2

-----------------------------------------------------------------------------
(* Properties of downsample_data (SpecDown) *)

\* C6: for a non-empty series with unique row labels and target_points >= 1
\* the result ends with the input's last row, and that row occurs once in it.
C6_EndsWithLast ==
    (ds_pc = "returned" /\ Len(ds_df) >= 1) =>
        /\ Len(ds_out) >= 1
        /\ ds_out[Len(ds_out)] = ds_df[Len(ds_df)]
        /\ Cardinality({ i \in 1..Len(ds_out) : ds_out[i] = ds_df[Len(ds_df)] }) = 1

\* C6 witness: 8 rows, target 3: stride 2 keeps rows 1, 3, 5, 7 and row 8 is appended
C6_Witness ==
    /\ ds_pc = "returned" /\ Len(ds_df) = 8 /\ ds_target = 3
    /\ Len(ds_out) = 5 /\ ds_out[4] = ds_df[7] /\ ds_out[5] = ds_df[8]

\* C7: when len(series) <= 1.5 * target_points the result is the series: the
\* same rows in the same order.
C7_NoOpNearTarget ==
    (ds_pc = "returned" /\ 2 * Len(ds_df) <= 3 * ds_target) => ds_out = ds_df

\* C7 witness: 6 rows, target 4 - longer than the target, within 1.5 times it
C7_Witness ==
    /\ ds_pc = "returned" /\ Len(ds_df) = 6 /\ ds_target = 4 /\ ds_out = ds_df

\* C10: the result has at most 2 * target_points rows, whatever the input length.
C10_AtMostTwiceTarget ==
    ds_pc = "returned" => Len(ds_out) <= 2 * ds_target

\* C10 witness: 9 rows, target 2: stride 4 keeps rows 1, 5, 9
C10_Witness ==
    /\ ds_pc = "returned" /\ Len(ds_df) = 9 /\ ds_target = 2 /\ Len(ds_out) = 3

-----------------------------------------------------------------------------
(* Properties of the two views (SpecSort) *)

\* Place of entries[i] in the descending stable order on `field`
C9_Place(entries, i, field) ==
    1 + Cardinality({ j \in 1..Len(entries) :
                        FracGT(KeyOf(entries[j], field), KeyOf(entries[i], field)) })
      + Cardinality({ j \in 1..(i - 1) :
                        KeyOf(entries[j], field) = KeyOf(entries[i], field) })

C9_IsTop10(view, entries, field) ==
    /\ Len(view) = (IF Len(entries) < 10 THEN Len(entries) ELSE 10)
    /\ \A i \in 1..Len(entries) :
          C9_Place(entries, i, field) <= 10 =>
              view[C9_Place(entries, i, field)] = entries[i]

\* C9: the step that builds the views leaves the entry list as it is and makes
\* each view the first min(10, n) entries of the list in descending order of
\* its key, entries with equal keys in their order in the list.
C9_StableTop10 ==
    [][(pc = "rank" /\ pc' = "done") =>
          /\ ranking_data' = ranking_data
          /\ C9_IsTop10(top_intensity', ranking_data, "intensity")
          /\ C9_IsTop10(top_whales', ranking_data, "oi_growth_usd")]_vars

\* C9 witness: 11 entries, both views cut to 10, each led by the earliest of
\* several entries with the same key
C9_Witness ==
    /\ pc = "done" /\ Len(ranking_data) = 11
    /\ Len(top_intensity) = 10 /\ Len(top_whales) = 10
    /\ top_intensity[1].symbol = "S02" /\ top_intensity[2].symbol = "S03"
    /\ top_intensity[1].intensity = top_intensity[2].intensity
    /\ top_whales[1].symbol = "S01" /\ top_whales[2].symbol = "S04"
    /\ top_whales[1].oi_growth_usd = top_whales[2].oi_growth_usd

-----------------------------------------------------------------------------
(* Properties of the cached acquisition (SpecCache) *)

InFlight(k) == { s \in Sessions : spc[s][2] = "fetch" /\ KeyFor(s) = k }

AllInFlight == { s \in Sessions : spc[s][2] = "fetch" }

BulkKeys == { k \in Keys : k[1] = "bulk" }

RECURSIVE SumCount(_)
SumCount(ks) ==
    IF ks = {} THEN 0
    ELSE LET k == CHOOSE x \in ks : TRUE IN fetchCount[k] + SumCount(ks \ {k})

====
